---- MODULE Spec2Model ----
(***************************************************************************)
(* A model of the stock data fetcher (src/src/TushareStockData.py) and the *)
(* chart generator (src/src/stockChartGenerator.py).                       *)
(*                                                                         *)
(* Python strings are sequences of one-character strings, so that exact    *)
(* comparison, substring search and regular-expression search are          *)
(* different computations.  None and '' are both the empty sequence: the   *)
(* code only ever tests them with "not x" / "if x" / "x or y".             *)
(***************************************************************************)
EXTENDS Naturals, Sequences, FiniteSets

VARIABLES
    stock_basic,   \* remote symbol directory: the rows pro.stock_basic returns
    daily,         \* remote daily table: the rows pro.daily selects from
    resolved,      \* the last get_stock_code_by_name call and its outcome
    fetched,       \* the last get_stock_data call and its outcome
    saved,         \* the last save_to_csv call and its outcome
    files,         \* file system: the files written
    dirs,          \* file system: the directories that exist
    frame,         \* the DataFrame handed to the chart generator
    chart_data,    \* the last prepare_data(frame) outcome
    renorm,        \* the outcome of prepare_data applied to chart_data
    chart,         \* the last generate_chart call and its outcome
    batch          \* generate_multiple_charts: inputs, loop position, results

vars == <<stock_basic, daily, resolved, fetched, saved, files, dirs,
          frame, chart_data, renorm, chart, batch>>

----------------------------------------------------------------------------
(* Bounds *)

MaxNameLen == 2
MaxDir == 2
MaxRows == 2
MaxDay == 2
MaxStocks == 2

----------------------------------------------------------------------------
(* Strings, tickers, the symbol directory *)

None == <<>>

\* "." is the one regular-expression metacharacter of the alphabet
Chars == {"a", "b", "."}

Names == UNION {[1..n -> Chars] : n \in 1..MaxNameLen}

T1 == <<"T", "1">>
T2 == <<"T", "2">>
Tickers == {T1, T2}

DirEntries == [ts_code : Tickers, name : Names]

\* a directory lists each ticker at most once
Directories ==
    {d \in UNION {[1..n -> DirEntries] : n \in 0..MaxDir} :
        \A i, j \in DOMAIN d : i # j => d[i].ts_code # d[j].ts_code}

\* sub occurs in s as a contiguous run of characters
IsSubstring(s, sub) ==
    \E p \in 1..(Len(s) + 1) :
        /\ p + Len(sub) - 1 <= Len(s)
        /\ \A k \in 1..Len(sub) : sub[k] = s[p + k - 1]

\* Series.str.contains(pat, na=False): regex defaults to True, so pat is
\* searched as a regular expression (re.search); over Chars that means "."
\* matches any one character and every other character matches itself
str_contains(s, pat) ==
    \E p \in 1..(Len(s) + 1) :
        /\ p + Len(pat) - 1 <= Len(s)
        /\ \A k \in 1..Len(pat) : pat[k] = "." \/ pat[k] = s[p + k - 1]

get_stock_code_by_name_cached(stock_list, stock_name, up) ==
    LET exact == SelectSeq(stock_list, LAMBDA e : e.name = stock_name)
        result == IF exact = <<>>
                  THEN SelectSeq(stock_list,
                           LAMBDA e : str_contains(e.name, stock_name))
                  ELSE exact
    IN  IF result = <<>>
        THEN [status |-> "NotFoundError", ts_code |-> None, requests |-> <<>>]
        ELSE [status |-> "ok", ts_code |-> result[1].ts_code, requests |-> <<>>]

\* get_stock_code_by_name; up: the stock_basic request does not raise
get_stock_code_by_name(stock_list, stock_name, up) ==
    IF ~up
    THEN [status |-> "NetworkError", ts_code |-> None,
          requests |-> <<"stock_basic">>]
    ELSE LET exact == SelectSeq(stock_list, LAMBDA e : e.name = stock_name)
             result == IF exact = <<>>
                       THEN SelectSeq(stock_list,
                                LAMBDA e : str_contains(e.name, stock_name))
                       ELSE exact
         IN  IF result = <<>>
             THEN [status |-> "NotFoundError", ts_code |-> None,
                   requests |-> <<"stock_basic">>]
             ELSE [status |-> "ok", ts_code |-> result[1].ts_code,
                   requests |-> <<"stock_basic">>]

NoResolve ==
    [called |-> FALSE, stock_name |-> None, up |-> TRUE,
     out |-> [status |-> "none", ts_code |-> None, requests |-> <<>>]]

----------------------------------------------------------------------------
(* DataFrames *)

\* A DataFrame is its column headers, the format of the cells of its date
\* column ("none" without one), the kind of its index and its rows in order.
\* A row holds the cell of each column under the column's meaning, and key,
\* its index label: the row's original position under a RangeIndex, the
\* parsed day under a Date index.
EmptyFrame == [columns |-> {}, datefmt |-> "none", index |-> "RangeIndex", rows |-> <<>>]

\* DataFrame.empty
empty(df) == df.rows = <<>>

Bijections(n) == {f \in [1..n -> 1..n] : \A i, j \in 1..n : i # j => f[i] # f[j]}

Arrangements(rows) ==
    {[i \in 1..Len(rows) |-> rows[f[i]]] : f \in Bijections(Len(rows))}

Ascending(rows, Key(_)) ==
    \A i \in 1..(Len(rows) - 1) : Key(rows[i]) <= Key(rows[i + 1])

\* the orders a sort of rows by Key may produce (ties in any order)
Sorted(rows, Key(_)) == {r \in Arrangements(rows) : Ascending(r, Key)}

----------------------------------------------------------------------------
(* The remote source *)

\* trade dates are 'YYYYMMDD' strings, which compare as the days they name;
\* day 0 stands for an omitted (None) date argument
Days == 1..MaxDay
NoDate == 0
DefaultStart == 1
Today == MaxDay

\* the quote of a trading day: [open, high, low, close, vol]
Quote(d) ==
    IF d % 2 = 1
    THEN [open |-> 1, high |-> 3, low |-> 1, close |-> 2, vol |-> 5]
    ELSE [open |-> 2, high |-> 3, low |-> 1, close |-> 1, vol |-> 4]

DailyKeys == [ts_code : Tickers, trade_date : Days]

\* the remote daily table: the (ticker, trading day) pairs it has a row for,
\* one row per pair
DailyTables == {t \in SUBSET DailyKeys : Cardinality(t) <= MaxRows}

TushareColumns == {"ts_code", "trade_date", "open", "high", "low", "close", "vol"}

Row(k, q, key) ==
    [ts_code |-> k.ts_code, trade_date |-> k.trade_date, stock_name |-> None,
     open |-> q.open, high |-> q.high, low |-> q.low, close |-> q.close,
     vol |-> q.vol, key |-> key]

\* the days of a set, latest first
RECURSIVE Descending(_)
Descending(S) ==
    IF S = {} THEN <<>>
    ELSE LET d == CHOOSE x \in S : \A y \in S : y <= x
         IN  <<d>> \o Descending(S \ {d})

\* pro.daily(ts_code=, start_date=, end_date=): the rows of one ticker in
\* the closed date range, latest trading day first, under a fresh RangeIndex
pro_daily(table, ts_code, start_date, end_date) ==
    LET hits == Descending({k.trade_date : k \in
                    {x \in table : /\ x.ts_code = ts_code
                                   /\ start_date <= x.trade_date
                                   /\ x.trade_date <= end_date}})
    IN  [columns |-> IF hits = <<>> THEN {} ELSE TushareColumns,
         datefmt |-> IF hits = <<>> THEN "none" ELSE "compact",
         index |-> "RangeIndex",
         rows |-> [i \in 1..Len(hits) |->
                     Row([ts_code |-> ts_code, trade_date |-> hits[i]],
                         Quote(hits[i]), i)]]

\* pro.stock_basic(ts_code=, fields='name')
pro_stock_info(stock_list, ts_code) ==
    SelectSeq(stock_list, LAMBDA e : e.ts_code = ts_code)

----------------------------------------------------------------------------
(* TushareStockData.get_stock_data *)

\* df['stock_name'] = value
with_stock_name(df, value) ==
    [df EXCEPT !.columns = @ \cup {"stock_name"},
               !.rows = [i \in 1..Len(df.rows) |-> [df.rows[i] EXCEPT !.stock_name = value]]]

sort_values_skipped(df) == df

\* df.sort_values('trade_date'); the remote's dates are distinct per ticker,
\* so the order is unique
sort_values(df) ==
    [df EXCEPT !.rows = CHOOSE r \in Sorted(df.rows, LAMBDA x : x.trade_date) : TRUE]

missing_identifier_unchecked(stock_name, stock_code) == FALSE

\* not stock_name and not stock_code
missing_identifier(stock_name, stock_code) ==
    stock_name = None /\ stock_code = None

Raised(status, ts_code, requests) ==
    [status |-> status, ts_code |-> ts_code, df |-> EmptyFrame, requests |-> requests]

annotate_without_fallback(stock_list, df, stock_name, ts_code, n, failAt) ==
    IF stock_name # None
    THEN [df |-> with_stock_name(df, stock_name), requests |-> <<>>]
    ELSE [df |-> df, requests |-> <<"stock_basic">>]

\* The "add the stock name" step of get_stock_data; n: the number of the
\* request it may make, failAt: the number of the request that raises
annotate(stock_list, df, stock_name, ts_code, n, failAt) ==
    IF stock_name # None
    THEN [df |-> with_stock_name(df, stock_name), requests |-> <<>>]
    ELSE IF failAt = n
    THEN [df |-> with_stock_name(df, ts_code), requests |-> <<"stock_basic">>]
    ELSE LET stock_info == pro_stock_info(stock_list, ts_code)
         IN  [df |-> IF stock_info # <<>>
                     THEN with_stock_name(df, stock_info[1].name)
                     ELSE df,
              requests |-> <<"stock_basic">>]

\* get_stock_data; failAt: the number (in call order) of the one remote
\* request of this call that raises, 0 when none does
get_stock_data(stock_list, table, stock_name, stock_code, start_date, end_date, failAt) ==
    IF missing_identifier(stock_name, stock_code)
    THEN Raised("InvalidArgument", None, <<>>)
    ELSE
    LET found == IF stock_name # None
                 THEN get_stock_code_by_name(stock_list, stock_name, failAt # 1)
                 ELSE [status |-> "ok", ts_code |-> stock_code, requests |-> <<>>]
        ts_code == found.ts_code
        start == IF start_date = NoDate THEN DefaultStart ELSE start_date
        end == IF end_date = NoDate THEN Today ELSE end_date
        reqs == Append(found.requests, "daily")
        df == pro_daily(table, ts_code, start, end)
    IN  IF found.status # "ok"
        THEN Raised(found.status, None, found.requests)
        ELSE IF failAt = Len(reqs)
        THEN Raised("NetworkError", ts_code, reqs)
        ELSE IF empty(df)
        THEN [status |-> "ok", ts_code |-> ts_code, df |-> EmptyFrame, requests |-> reqs]
        ELSE LET named == annotate(stock_list, sort_values(df), stock_name,
                                   ts_code, Len(reqs) + 1, failAt)
             IN  [status |-> "ok", ts_code |-> ts_code, df |-> named.df,
                  requests |-> reqs \o named.requests]

NoFetchArgs ==
    [stock_name |-> None, stock_code |-> None, start_date |-> NoDate,
     end_date |-> NoDate, failAt |-> 0]

NoFetch ==
    [called |-> FALSE, args |-> NoFetchArgs, out |-> Raised("none", None, <<>>)]

----------------------------------------------------------------------------
(* TushareStockData.save_to_csv *)

NoPath == [dir |-> "", name |-> None, start_date |-> NoDate, end_date |-> NoDate]

Unknown == <<"unknown">>
Csv == ".csv"
StockData == "stock_data"

Min(S) == CHOOSE x \in S : \A y \in S : x <= y
Max(S) == CHOOSE x \in S : \A y \in S : y <= x

\* filename.endswith('.csv')
endswith_csv(filename) == filename # <<>> /\ filename[Len(filename)] = Csv

\* the path of the file save_to_csv writes: an automatic name is
\* "{stock_name}_{min trade_date}_{max trade_date}.csv"
csv_path(df, filename, output_dir) ==
    LET dates == {df.rows[i].trade_date : i \in DOMAIN df.rows}
        auto == filename = None
        name == IF ~auto THEN filename
                ELSE IF "stock_name" \in df.columns
                THEN Append(df.rows[1].stock_name, Csv)
                ELSE Append(Unknown, Csv)
    IN  [dir |-> output_dir,
         name |-> IF endswith_csv(name) THEN name ELSE Append(name, Csv),
         start_date |-> IF auto THEN Min(dates) ELSE NoDate,
         end_date |-> IF auto THEN Max(dates) ELSE NoDate]

save_to_csv_unguarded(df, filename, output_dir, fs_files, fs_dirs) ==
    [ret |-> [NoPath EXCEPT !.dir = output_dir],
     files |-> fs_files \cup {[NoPath EXCEPT !.dir = output_dir]},
     dirs |-> fs_dirs \cup {output_dir}]

\* save_to_csv on the file system <<fs_files, fs_dirs>>: the path returned
\* (NoPath for None) and the file system it leaves
save_to_csv(df, filename, output_dir, fs_files, fs_dirs) ==
    IF empty(df)
    THEN [ret |-> NoPath, files |-> fs_files, dirs |-> fs_dirs]
    ELSE LET filepath == csv_path(df, filename, output_dir)
         IN  [ret |-> filepath,
              files |-> fs_files \cup {filepath},
              dirs |-> fs_dirs \cup {output_dir}]

NoSave == [called |-> FALSE, df |-> EmptyFrame, filename |-> None, ret |-> NoPath]

----------------------------------------------------------------------------
(* StockChartGenerator.prepare_data *)

\* data.columns.str.lower(), on the headers the model draws from
str_lower(c) ==
    CASE c = "Trade_Date" -> "trade_date"
      [] c = "Date" -> "date"
      [] c = "Open" -> "open"
      [] c = "High" -> "high"
      [] c = "Low" -> "low"
      [] c = "Close" -> "close"
      [] c = "Volume" -> "volume"
      [] OTHER -> c

column_mapping_without_close(c) ==
    CASE c = "open" -> "Open"
      [] c = "high" -> "High"
      [] c = "low" -> "Low"
      [] c = "vol" -> "Volume"
      [] c = "volume" -> "Volume"
      [] OTHER -> c

column_mapping_with_date(c) ==
    CASE c = "open" -> "Open"
      [] c = "high" -> "High"
      [] c = "low" -> "Low"
      [] c = "close" -> "Close"
      [] c = "vol" -> "Volume"
      [] c = "volume" -> "Volume"
      [] c = "date" -> "Date"
      [] OTHER -> c

\* DataFrame.rename(columns=column_mapping)
column_mapping(c) ==
    CASE c = "open" -> "Open"
      [] c = "high" -> "High"
      [] c = "low" -> "Low"
      [] c = "close" -> "Close"
      [] c = "vol" -> "Volume"
      [] c = "volume" -> "Volume"
      [] OTHER -> c

required_columns == {"Open", "High", "Low", "Close"}

\* The three attempts on data['trade_date'], in order; a date column's cells
\* are all 'YYYYMMDD' ("compact"), all 'YYYY-MM-DD' ("iso") or all not dates
\* ("bad"); a column of no cells counts as "compact", it parses
to_datetime_format(datefmt) == datefmt = "compact"
to_datetime_infer(datefmt) == datefmt \in {"compact", "iso"}
to_datetime_each(datefmt) == datefmt # "bad"

parse_trade_date(datefmt) ==
    to_datetime_format(datefmt) \/ to_datetime_infer(datefmt) \/ to_datetime_each(datefmt)

\* pd.to_datetime(data['Date']): one attempt
parse_Date(datefmt) == to_datetime_infer(datefmt)

\* data['Date'] = <the parsed dates>; data.set_index('Date')
set_index_Date(df) ==
    [df EXCEPT !.columns = @ \ {"Date"},
               !.datefmt = IF "trade_date" \in df.columns THEN @ ELSE "none",
               !.index = "Date",
               !.rows = [i \in 1..Len(df.rows) |->
                           [df.rows[i] EXCEPT !.key = df.rows[i].trade_date]]]

\* data.sort_index(): an index that is already ascending is left as it is;
\* otherwise the rows are sorted by index label, equal labels in any order
sort_index(df) ==
    IF Ascending(df.rows, LAMBDA x : x.key)
    THEN {df}
    ELSE {[df EXCEPT !.rows = r] : r \in Sorted(df.rows, LAMBDA x : x.key)}

Failed(status) == [status |-> status, data |-> EmptyFrame]

\* prepare_data: the outcomes it may have on df
prepare_data(df) ==
    LET has_trade_date == "trade_date" \in df.columns
        has_Date == ~has_trade_date /\ "Date" \in df.columns
        unparsed == \/ has_trade_date /\ ~parse_trade_date(df.datefmt)
                    \/ has_Date /\ ~parse_Date(df.datefmt)
        indexed == IF has_trade_date \/ has_Date THEN set_index_Date(df) ELSE df
        renamed == [indexed EXCEPT
                       !.columns = {column_mapping(str_lower(c)) : c \in @}]
        missing_columns == required_columns \ renamed.columns
    IN  IF unparsed THEN {Failed("DateParseError")}
        ELSE IF missing_columns # {} THEN {Failed("SchemaError")}
        ELSE {[status |-> "ok", data |-> d] : d \in sort_index(renamed)}

NoData == [called |-> FALSE, out |-> Failed("none")]

----------------------------------------------------------------------------
(* StockChartGenerator.generate_chart and _fallback_plot *)

Title(kind, stock_name, start_date, end_date) ==
    [kind |-> kind, stock_name |-> stock_name,
     start_date |-> start_date, end_date |-> end_date]

NoTitle == Title("None", None, NoDate, NoDate)
GivenTitle == Title("given", None, NoDate, NoDate)
DefaultTitle == Title("default", None, NoDate, NoDate)

NoFig == [renderer |-> "none", title |-> NoTitle, segments |-> <<>>, bars |-> <<>>]

\* "if title is None": the title derived from df and the prepared data, or
\* the error the derivation raises
derive_title(df, data, title) ==
    IF title # NoTitle THEN [status |-> "ok", title |-> title]
    ELSE IF "stock_name" \notin df.columns
    THEN [status |-> "ok", title |-> DefaultTitle]
    ELSE IF empty(df)
    THEN [status |-> "IndexError", title |-> NoTitle]
    ELSE IF data.index # "Date"
    THEN [status |-> "AttributeError", title |-> NoTitle]
    ELSE [status |-> "ok",
          title |-> Title("auto", df.rows[1].stock_name,
                          data.rows[1].key, data.rows[Len(data.rows)].key)]

\* mpf.plot refuses data without a date index, and volume=True on data
\* without a Volume column
mpf_refuses(data, volume) ==
    data.index # "Date" \/ (volume /\ "Volume" \notin data.columns)

\* the two ax1.plot calls of row i (enumerate counts from 0)
row_segments(row, i) ==
    <<[x |-> i - 1, from |-> row.low, to |-> row.high,
       color |-> "k", linewidth |-> "0.8"],
      [x |-> i - 1, from |-> row.open, to |-> row.close,
       color |-> IF row.close >= row.open THEN "r" ELSE "g", linewidth |-> "3"]>>

RECURSIVE plot_rows(_, _)
plot_rows(rows, n) ==
    IF n = 0 THEN <<>> ELSE plot_rows(rows, n - 1) \o row_segments(rows[n], n)

\* _fallback_plot: the figure, or the error it raises (the tick labels call
\* strftime on the index labels; the volume bars read data['Volume'])
_fallback_plot(data, title, volume) ==
    IF data.rows # <<>> /\ data.index # "Date"
    THEN [status |-> "AttributeError", fig |-> NoFig]
    ELSE IF volume /\ "Volume" \notin data.columns
    THEN [status |-> "KeyError", fig |-> NoFig]
    ELSE [status |-> "ok",
          fig |-> [renderer |-> "fallback", title |-> title,
                   segments |-> plot_rows(data.rows, Len(data.rows)),
                   bars |-> IF volume
                            THEN [i \in 1..Len(data.rows) |-> data.rows[i].vol]
                            ELSE <<>>]]

ChartPath == [NoPath EXCEPT !.dir = "stock_charts", !.name = <<"x.png">>]
BarePath == [NoPath EXCEPT !.name = <<"x.png">>]

ChartOutcome(status, delegate, data, fig, saved_path, fs_files, fs_dirs) ==
    [status |-> status, delegate |-> delegate, data |-> data, fig |-> fig,
     saved_path |-> saved_path, files |-> fs_files, dirs |-> fs_dirs]

\* the steps of generate_chart after prepare_data returned data; raises:
\* mpf.plot raises although it does not refuse the data
render(df, data, title, volume, save_path, raises, fs_files, fs_dirs) ==
    LET titled == derive_title(df, data, title)
        primary_raised == raises \/ mpf_refuses(data, volume)
        drawn == IF primary_raised
                 THEN _fallback_plot(data, titled.title, volume)
                 ELSE [status |-> "ok",
                       fig |-> [NoFig EXCEPT !.renderer = "mplfinance",
                                             !.title = titled.title]]
        delegate == IF primary_raised THEN "raised" ELSE "returned"
    IN  IF titled.status # "ok"
        THEN ChartOutcome(titled.status, "not called", data, NoFig, NoPath,
                          fs_files, fs_dirs)
        ELSE IF drawn.status # "ok"
        THEN ChartOutcome(drawn.status, delegate, data, NoFig, NoPath,
                          fs_files, fs_dirs)
        ELSE IF save_path = NoPath
        THEN ChartOutcome("ok", delegate, data, drawn.fig, NoPath,
                          fs_files, fs_dirs)
        ELSE IF save_path.dir = ""
        THEN ChartOutcome("FileNotFoundError", delegate, data, NoFig, NoPath,
                          fs_files, fs_dirs)
        ELSE ChartOutcome("ok", delegate, data, drawn.fig, save_path,
                          fs_files \cup {save_path},
                          fs_dirs \cup {save_path.dir})

\* generate_chart on a DataFrame: the outcomes it may have
generate_chart(df, title, volume, save_path, raises, fs_files, fs_dirs) ==
    {IF p.status # "ok"
     THEN ChartOutcome(p.status, "not called", EmptyFrame, NoFig, NoPath,
                       fs_files, fs_dirs)
     ELSE render(df, p.data, title, volume, save_path, raises, fs_files, fs_dirs) :
        p \in prepare_data(df)}

NoChartArgs ==
    [title |-> NoTitle, volume |-> FALSE, save_path |-> NoPath, raises |-> FALSE]

NoChart ==
    [called |-> FALSE, args |-> NoChartArgs,
     out |-> ChartOutcome("none", "not called", EmptyFrame, NoFig, NoPath, {}, {})]

----------------------------------------------------------------------------
(* StockChartGenerator.generate_chart_from_stock, generate_multiple_charts *)

StockCharts == "stock_charts"

\* "x or y"
Or(x, y) == IF x # None THEN x ELSE y

FromStock(status, fig, df, saved_path, fs_files, fs_dirs) ==
    [status |-> status, fig |-> fig, df |-> df, saved_path |-> saved_path,
     files |-> fs_files, dirs |-> fs_dirs]

\* the path of the image: "{name or code}_{chart_type}_{start}_{end}.png"
png_path(stock_name, stock_code, start_date, end_date, chart_type, output_dir) ==
    [dir |-> output_dir,
     name |-> Or(stock_name, Or(stock_code, Unknown)) \o <<chart_type, ".png">>,
     start_date |-> IF start_date = NoDate THEN DefaultStart ELSE start_date,
     end_date |-> IF end_date = NoDate THEN Today ELSE end_date]

\* generate_chart_from_stock: the outcomes it may have; a status other than
\* "ok" is the exception it raises, fig = NoFig is the None it returns
generate_chart_from_stock(stock_list, table, stock_name, stock_code, start_date, end_date, chart_type, output_dir, failAt, raises, fs_files, fs_dirs) ==
    LET got == get_stock_data(stock_list, table, stock_name, stock_code,
                              start_date, end_date, failAt)
        save_path == png_path(stock_name, stock_code, start_date, end_date,
                              chart_type, output_dir)
    IN  IF got.status # "ok"
        THEN {FromStock(got.status, NoFig, EmptyFrame, NoPath, fs_files, fs_dirs)}
        ELSE IF empty(got.df)
        THEN {FromStock("ok", NoFig, got.df, NoPath, fs_files, fs_dirs)}
        ELSE {FromStock(c.status, c.fig, got.df, c.saved_path, c.files, c.dirs) :
                c \in generate_chart(got.df, NoTitle, TRUE, save_path, raises,
                                     fs_files, fs_dirs)}

Entry(stock, chart_type, kind, data_rows, saved_path, error) ==
    [stock_name |-> Or(stock.name, stock.code), chart_type |-> chart_type,
     kind |-> kind, data_rows |-> data_rows, saved_path |-> saved_path,
     error |-> error]

on_exception_dropped(results, stock, chart_type, error) == results

\* except Exception as e: results.append({stock_name, chart_type, error})
on_exception(results, stock, chart_type, error) ==
    Append(results, Entry(stock, chart_type, "error", 0, NoPath, error))

\* "if fig and saved_path": results.append({stock_name, chart_type,
\* data_rows, saved_path})
on_return(results, stock, chart_type, r) ==
    IF r.fig # NoFig /\ r.saved_path # NoPath
    THEN Append(results, Entry(stock, chart_type, "chart", Len(r.df.rows),
                               r.saved_path, "none"))
    ELSE results

\* the body of the inner loop on one outcome r of the call it makes;
\* repeated: kwargs names start_date or end_date, which the call also passes
\* by keyword, so that the call itself raises TypeError
item(results, stock, chart_type, r, repeated) ==
    IF repeated THEN on_exception(results, stock, chart_type, "TypeError")
    ELSE IF r.status # "ok" THEN on_exception(results, stock, chart_type, r.status)
    ELSE on_return(results, stock, chart_type, r)

NoBatch ==
    [pc |-> "idle", stock_list |-> <<>>, chart_types |-> <<>>,
     repeated |-> FALSE, i |-> 1, j |-> 1, results |-> <<>>, log |-> <<>>]

----------------------------------------------------------------------------
(* The frames handed to the chart generator *)

DateHeaders == {"none", "trade_date", "Trade_Date", "Date", "date"}
DateFormats == {"compact", "iso", "bad"}
VolumeHeaders == {"none", "vol", "volume", "Volume"}
PriceNames == {"open", "high", "low", "close"}

\* price headers as the remote names them, or as a chart-ready file does
Header(name, capitalised) == IF capitalised THEN column_mapping(name) ELSE name

ChartFrame(dateHeader, datefmt, capitalised, absent, volHeader, named, dates) ==
    LET columns == {Header(n, capitalised) : n \in PriceNames \ {absent}}
                   \cup ({dateHeader, volHeader} \ {"none"})
                   \cup (IF named THEN {"stock_name"} ELSE {})
    IN  [columns |-> columns,
         datefmt |-> IF dateHeader = "none" THEN "none"
                     ELSE IF dates = <<>> THEN "compact"
                     ELSE datefmt,
         index |-> "RangeIndex",
         rows |-> [i \in 1..Len(dates) |->
                     [Row([ts_code |-> T1, trade_date |-> dates[i]],
                          Quote(dates[i]), i)
                        EXCEPT !.stock_name = IF named THEN <<"a">> ELSE None]]]

DateColumns == UNION {[1..n -> Days] : n \in 0..MaxRows}

ChartFrames ==
    {ChartFrame(dh, fmt, cap, absent, vh, named, dates) :
        dh \in DateHeaders, fmt \in DateFormats, cap \in BOOLEAN,
        absent \in PriceNames \cup {"none"}, vh \in VolumeHeaders,
        named \in BOOLEAN, dates \in DateColumns}

----------------------------------------------------------------------------
(* Idle values of the parts a specification does not exercise *)

NoFrame == EmptyFrame

FetchIdle == fetched = NoFetch /\ saved = NoSave /\ files = {} /\ dirs = {}
ChartIdle == frame = NoFrame /\ chart_data = NoData /\ renorm = NoData /\ chart = NoChart
BatchIdle == batch = NoBatch

----------------------------------------------------------------------------
(* Specification of the resolver alone *)

Resolve(name, up) ==
    /\ resolved' = [called |-> TRUE, stock_name |-> name, up |-> up,
                    out |-> get_stock_code_by_name(stock_basic, name, up)]
    /\ UNCHANGED <<stock_basic, daily, fetched, saved, files, dirs,
                   frame, chart_data, renorm, chart, batch>>

InitResolve ==
    /\ stock_basic \in Directories
    /\ daily = {}
    /\ resolved = NoResolve
    /\ FetchIdle /\ ChartIdle /\ BatchIdle

NextResolve == \E name \in Names \cup {None}, up \in BOOLEAN : Resolve(name, up)

SpecResolve == InitResolve /\ [][NextResolve]_vars

----------------------------------------------------------------------------
(* Specification of the fetcher: one get_stock_data call on some remote    *)
(* state, then one save_to_csv of what it returned                         *)

ListedNames == {<<"a", "b">>, <<"b">>}
QueryNames == {<<"a">>, <<"a", "b">>, <<"a", "a">>}
Filenames == {None, <<"f">>, <<"f", Csv>>}

FetchDirectories ==
    {d \in Directories : \A i \in DOMAIN d : d[i].name \in ListedNames}

\* both dates omitted, or a closed range
DateRanges == {<<NoDate, NoDate>>} \cup {r \in Days \X Days : r[1] <= r[2]}

FetchArgs ==
    {[stock_name |-> n, stock_code |-> c, start_date |-> r[1],
      end_date |-> r[2], failAt |-> f] :
        n \in QueryNames \cup {None}, c \in Tickers \cup {None},
        r \in DateRanges, f \in 0..2}

GetStockData(a) ==
    /\ ~fetched.called
    /\ fetched' = [called |-> TRUE, args |-> a,
                   out |-> get_stock_data(stock_basic, daily, a.stock_name,
                               a.stock_code, a.start_date, a.end_date, a.failAt)]
    /\ UNCHANGED <<stock_basic, daily, resolved, saved, files, dirs,
                   frame, chart_data, renorm, chart, batch>>

SaveToCsv(filename) ==
    /\ fetched.called
    /\ fetched.out.status = "ok"
    /\ ~saved.called
    /\ LET r == save_to_csv(fetched.out.df, filename, StockData, files, dirs)
       IN  /\ saved' = [called |-> TRUE, df |-> fetched.out.df,
                        filename |-> filename, ret |-> r.ret]
           /\ files' = r.files
           /\ dirs' = r.dirs
    /\ UNCHANGED <<stock_basic, daily, resolved, fetched,
                   frame, chart_data, renorm, chart, batch>>

InitFetch ==
    /\ stock_basic \in FetchDirectories
    /\ daily \in DailyTables
    /\ resolved = NoResolve
    /\ FetchIdle /\ ChartIdle /\ BatchIdle

NextFetch ==
    \/ \E a \in FetchArgs : GetStockData(a)
    \/ \E filename \in Filenames : SaveToCsv(filename)

SpecFetch == InitFetch /\ [][NextFetch]_vars

----------------------------------------------------------------------------
(* Specification of the chart generator: on some frame, either             *)
(* prepare_data and prepare_data of its result, or one generate_chart call *)

\* the title is left to generate_chart, as its callers in the repository do
ChartArgs ==
    [title : {NoTitle}, volume : BOOLEAN,
     save_path : {NoPath, ChartPath, BarePath}, raises : BOOLEAN]

PrepareData ==
    /\ ~chart_data.called /\ ~chart.called
    /\ \E out \in prepare_data(frame) :
          chart_data' = [called |-> TRUE, out |-> out]
    /\ UNCHANGED <<stock_basic, daily, resolved, fetched, saved, files, dirs,
                   frame, renorm, chart, batch>>

PrepareAgain ==
    /\ chart_data.called /\ chart_data.out.status = "ok"
    /\ ~renorm.called
    /\ \E out \in prepare_data(chart_data.out.data) :
          renorm' = [called |-> TRUE, out |-> out]
    /\ UNCHANGED <<stock_basic, daily, resolved, fetched, saved, files, dirs,
                   frame, chart_data, chart, batch>>

GenerateChart(a) ==
    /\ ~chart_data.called /\ ~chart.called
    /\ \E out \in generate_chart(frame, a.title, a.volume, a.save_path,
                                 a.raises, files, dirs) :
          /\ chart' = [called |-> TRUE, args |-> a, out |-> out]
          /\ files' = out.files
          /\ dirs' = out.dirs
    /\ UNCHANGED <<stock_basic, daily, resolved, fetched, saved,
                   frame, chart_data, renorm, batch>>

InitChart ==
    /\ stock_basic = <<>>
    /\ daily = {}
    /\ resolved = NoResolve
    /\ fetched = NoFetch /\ saved = NoSave /\ files = {} /\ dirs = {}
    /\ frame \in ChartFrames
    /\ chart_data = NoData /\ renorm = NoData /\ chart = NoChart
    /\ BatchIdle

NextChart ==
    \/ PrepareData
    \/ PrepareAgain
    \/ \E a \in ChartArgs : GenerateChart(a)

SpecChart == InitChart /\ [][NextChart]_vars

----------------------------------------------------------------------------
(* Specification of the batch driver: generate_multiple_charts on a list   *)
(* of stocks and a list of chart types, one loop step at a time.  log is   *)
(* history: what the call of each item did.                                *)

\* a stock of the list: a name, or a dict with a code or with neither
Stock(name, code) == [name |-> name, code |-> code]
StockInputs ==
    {Stock(<<"a", "b">>, None), Stock(<<"a", "a">>, None),
     Stock(None, T1), Stock(None, None)}

StockLists == UNION {[1..n -> StockInputs] : n \in 0..MaxStocks}
ChartTypeLists == {<<>>, <<"candle">>, <<"candle", "line">>}

BatchDirectory == <<[ts_code |-> T1, name |-> <<"a", "b">>]>>
BatchTables == {t \in DailyTables : Cardinality(t) <= 1 /\ \A k \in t : k.ts_code = T1}

\* for stock in stock_list: the head of the outer loop
OuterLoop ==
    /\ batch.pc = "stock"
    /\ batch' = IF batch.i <= Len(batch.stock_list)
                THEN [batch EXCEPT !.pc = "type", !.j = 1]
                ELSE [batch EXCEPT !.pc = "done"]
    /\ UNCHANGED <<stock_basic, daily, resolved, fetched, saved, files, dirs,
                   frame, chart_data, renorm, chart>>

\* for chart_type in chart_types: one iteration, or the end of the loop
InnerLoop(failAt, raises) ==
    /\ batch.pc = "type"
    /\ IF batch.j <= Len(batch.chart_types)
       THEN LET stock == batch.stock_list[batch.i]
                chart_type == batch.chart_types[batch.j]
            IN  \E r \in generate_chart_from_stock(stock_basic, daily,
                            stock.name, stock.code, NoDate, NoDate, chart_type,
                            StockCharts, failAt, raises, files, dirs) :
                    LET raised == IF batch.repeated THEN "TypeError" ELSE r.status
                    IN  /\ batch' = [batch EXCEPT
                              !.results = item(@, stock, chart_type, r, batch.repeated),
                              !.log = Append(@, [i |-> batch.i, j |-> batch.j,
                                                 status |-> raised,
                                                 drawn |-> raised = "ok" /\ r.fig # NoFig,
                                                 data_rows |-> Len(r.df.rows)]),
                              !.j = @ + 1]
                        /\ files' = IF batch.repeated THEN files ELSE r.files
                        /\ dirs' = IF batch.repeated THEN dirs ELSE r.dirs
       ELSE /\ batch' = [batch EXCEPT !.pc = "stock", !.i = @ + 1]
            /\ UNCHANGED <<files, dirs>>
    /\ UNCHANGED <<stock_basic, daily, resolved, fetched, saved,
                   frame, chart_data, renorm, chart>>

InitBatch ==
    /\ stock_basic = BatchDirectory
    /\ daily \in BatchTables
    /\ resolved = NoResolve
    /\ FetchIdle /\ ChartIdle
    /\ \E sl \in StockLists, ct \in ChartTypeLists, rep \in BOOLEAN :
          batch = [NoBatch EXCEPT !.pc = "stock", !.stock_list = sl,
                                  !.chart_types = ct, !.repeated = rep]

NextBatch ==
    \/ OuterLoop
    \/ \E failAt \in 0..2, raises \in BOOLEAN : InnerLoop(failAt, raises)

SpecBatch == InitBatch /\ [][NextBatch]_vars

----------------------------------------------------------------------------
(* C1 *)

\* the entries, in directory order, that a predicate selects
FirstTicker(stock_list, Test(_)) == SelectSeq(stock_list, Test)[1].ts_code

\* C1: resolve returns the ticker of the first entry whose display name equals
\* the name; failing that, of the first entry whose display name has the name
\* as a substring; failing that, it fails with NotFoundError and no ticker.
C1_ResolveExactThenSubstring ==
    (resolved.called /\ resolved.up) =>
        LET name == resolved.stock_name
            IsExact(e) == e.name = name
            IsSub(e) == IsSubstring(e.name, name)
        IN  IF \E i \in DOMAIN stock_basic : IsExact(stock_basic[i])
            THEN /\ resolved.out.status = "ok"
                 /\ resolved.out.ts_code = FirstTicker(stock_basic, IsExact)
            ELSE IF \E i \in DOMAIN stock_basic : IsSub(stock_basic[i])
            THEN /\ resolved.out.status = "ok"
                 /\ resolved.out.ts_code = FirstTicker(stock_basic, IsSub)
            ELSE /\ resolved.out.status = "NotFoundError"
                 /\ resolved.out.ts_code = None

----------------------------------------------------------------------------
(* C3, C5, C6, C7, C9: get_stock_data and save_to_csv *)

\* the daily request of the last get_stock_data call was made and answered
DailyAnswered ==
    \E i \in DOMAIN fetched.out.requests :
        fetched.out.requests[i] = "daily" /\ fetched.args.failAt # i

\* what the remote holds for the ticker and the date range of the last call
RemoteRows ==
    LET lo == IF fetched.args.start_date = NoDate THEN DefaultStart
              ELSE fetched.args.start_date
        hi == IF fetched.args.end_date = NoDate THEN Today
              ELSE fetched.args.end_date
    IN  {k \in daily : /\ k.ts_code = fetched.out.ts_code
                       /\ lo <= k.trade_date
                       /\ k.trade_date <= hi}

ReturnedRows == fetched.out.df.rows

NonEmptyResult ==
    fetched.called /\ fetched.out.status = "ok" /\ ~empty(fetched.out.df)

\* C3: when the remote has zero rows for the requested ticker and range,
\* get_stock_data returns an empty result and no error; save_to_csv of an
\* empty result returns None, writes no file and creates no directory.
C3_EmptyResultIsNoErrorAndNotSaved ==
    /\ (fetched.called /\ DailyAnswered /\ RemoteRows = {}) =>
          (fetched.out.status = "ok" /\ fetched.out.df = EmptyFrame)
    /\ (saved.called /\ empty(saved.df)) =>
          (saved.ret = NoPath /\ files = {} /\ dirs = {})

C3_Witness ==
    /\ fetched.called /\ DailyAnswered /\ RemoteRows = {}
    /\ fetched.args.stock_code # None
    /\ saved.called /\ empty(saved.df)

\* C5: the rows of a non-empty result are strictly ascending by trade date
\* and each carries the ticker the call resolved to.
C5_SortedStrictlyAndOneTicker ==
    NonEmptyResult =>
        /\ \A i \in 1..(Len(ReturnedRows) - 1) :
              ReturnedRows[i].trade_date < ReturnedRows[i + 1].trade_date
        /\ \A i \in DOMAIN ReturnedRows :
              ReturnedRows[i].ts_code = fetched.out.ts_code

C5_Witness ==
    /\ NonEmptyResult
    /\ Len(ReturnedRows) >= 2
    /\ fetched.args.stock_name # None

\* C6: with neither a name nor a ticker, get_stock_data fails with
\* InvalidArgument before it makes any remote request.
C6_NeitherIdentifierFailsBeforeAnyRequest ==
    (fetched.called /\ fetched.args.stock_name = None
                    /\ fetched.args.stock_code = None) =>
        /\ fetched.out.status = "InvalidArgument"
        /\ fetched.out.requests = <<>>

C6_Witness ==
    /\ fetched.called
    /\ fetched.args.stock_name = None /\ fetched.args.stock_code = None
    /\ fetched.out.status = "InvalidArgument"
    /\ daily # {} /\ stock_basic # <<>>

\* C7: with both a name and a ticker, get_stock_data fails with
\* InvalidArgument (here: for a name the directory lists and a call none of
\* whose requests raised, where the code goes on to return rows).
C7_BothIdentifiersFail ==
    (/\ fetched.called
     /\ fetched.args.stock_name # None /\ fetched.args.stock_code # None
     /\ fetched.args.failAt = 0
     /\ \E i \in DOMAIN stock_basic : stock_basic[i].name = fetched.args.stock_name) =>
        fetched.out.status = "InvalidArgument"

\* C9: every row of a non-empty result has a stock_name equal to the
\* directory's display name of the ticker the call resolved to (here: for a
\* call given a name, none of whose requests raised).
C9_AnnotatedWithDisplayName ==
    (NonEmptyResult /\ fetched.args.stock_name # None /\ fetched.args.failAt = 0) =>
        /\ "stock_name" \in fetched.out.df.columns
        /\ \E i \in DOMAIN stock_basic :
              /\ stock_basic[i].ts_code = fetched.out.ts_code
              /\ \A j \in DOMAIN ReturnedRows :
                    ReturnedRows[j].stock_name = stock_basic[i].name

----------------------------------------------------------------------------
(* C11, C12: the remote requests of get_stock_data *)

\* the requests the last get_stock_data call made, in call order
Requests == fetched.out.requests

\* one of the requests of the last get_stock_data call raised
RequestRaised ==
    fetched.called /\ fetched.args.failAt \in DOMAIN Requests

\* the request that raised is the display-name request that get_stock_data
\* makes, when given a ticker only, after a non-empty daily result
NameLookupRaised ==
    /\ RequestRaised
    /\ fetched.args.stock_name = None
    /\ Requests[fetched.args.failAt] = "stock_basic"

\* C11 as claimed: a get_stock_data call one of whose remote requests raised
\* never returns a result; the error reaches the caller.
C11_RequestErrorsPropagate ==
    RequestRaised => fetched.out.status = "NetworkError"

\* C11, amended: an error raised by the directory request of the name
\* resolution or by the daily request reaches the caller of get_stock_data;
\* an error raised by the display-name request made for a call given a
\* ticker only is caught, and the call returns its rows, each with the ticker
\* as stock_name.
C11_RequestErrorsPropagateExceptNameLookup ==
    /\ (RequestRaised /\ ~NameLookupRaised) =>
          /\ fetched.out.status = "NetworkError"
          /\ empty(fetched.out.df)
    /\ NameLookupRaised =>
          /\ NonEmptyResult
          /\ "stock_name" \in fetched.out.df.columns
          /\ \A i \in DOMAIN ReturnedRows :
                ReturnedRows[i].stock_name = fetched.args.stock_code

C11_Witness ==
    /\ NameLookupRaised
    /\ Len(ReturnedRows) >= 2
    /\ \E i \in DOMAIN stock_basic :
          stock_basic[i].ts_code = fetched.args.stock_code

\* the call passed the argument check of get_stock_data
PassedArgumentCheck ==
    fetched.called /\ fetched.out.status # "InvalidArgument"

\* C12 as claimed: a get_stock_data call that passes the argument check
\* makes exactly one remote request (here: for a call none of whose requests
\* raised).
C12_ExactlyOneRequest ==
    (PassedArgumentCheck /\ fetched.args.failAt = 0) => Len(Requests) = 1

\* C12, amended: a get_stock_data call that passes the argument check makes
\* at most one daily request, and one or two requests in all. Given a name
\* it first requests the directory, then, if the name resolved, the daily
\* rows. Given a ticker only it requests the daily rows, then, if that
\* request returned rows, the display name.
C12_OneDailyRequestAndItsDirectoryRequest ==
    PassedArgumentCheck =>
        IF fetched.args.stock_name # None
        THEN IF fetched.out.status = "NotFoundError"
                  \/ (RequestRaised /\ fetched.args.failAt = 1)
             THEN Requests = <<"stock_basic">>
             ELSE Requests = <<"stock_basic", "daily">>
        ELSE IF RemoteRows = {} \/ (RequestRaised /\ fetched.args.failAt = 1)
             THEN Requests = <<"daily">>
             ELSE Requests = <<"daily", "stock_basic">>

C12_Witness ==
    /\ NonEmptyResult
    /\ fetched.args.failAt = 0
    /\ fetched.args.stock_name # None
    /\ Requests = <<"stock_basic", "daily">>

----------------------------------------------------------------------------
(* C2: generate_multiple_charts *)

\* what the claim has the driver record for the logged items, in order: one
\* error entry for an item whose call raised, one chart entry for an item
\* that drew and saved a chart
RECURSIVE ExpectedEntries(_, _, _)
ExpectedEntries(stock_list, chart_types, log) ==
    IF log = <<>> THEN <<>>
    ELSE LET e == log[Len(log)]
             before == ExpectedEntries(stock_list, chart_types, SubSeq(log, 1, Len(log) - 1))
             stock == stock_list[e.i]
             who == IF stock.name # None THEN stock.name ELSE stock.code
         IN  IF e.status # "ok"
             THEN Append(before, [stock_name |-> who, chart_type |-> chart_types[e.j],
                                  kind |-> "error", error |-> e.status])
             ELSE IF e.drawn
             THEN Append(before, [stock_name |-> who, chart_type |-> chart_types[e.j],
                                  kind |-> "chart", error |-> "none"])
             ELSE before

RecordedEntries ==
    [k \in 1..Len(batch.results) |->
        [stock_name |-> batch.results[k].stock_name,
         chart_type |-> batch.results[k].chart_type,
         kind |-> batch.results[k].kind,
         error |-> batch.results[k].error]]

\* the items run so far are the first ones of the nested order
NestedOrder ==
    \A k \in DOMAIN batch.log :
        /\ batch.log[k].i = ((k - 1) \div Len(batch.chart_types)) + 1
        /\ batch.log[k].j = ((k - 1) % Len(batch.chart_types)) + 1

ScenarioAB ==
    /\ batch.pc = "done"
    /\ batch.stock_list = <<Stock(<<"a", "b">>, None), Stock(<<"a", "a">>, None)>>
    /\ batch.chart_types = <<"candle", "line">>
    /\ Len(batch.log) = 4
    /\ \A k \in {1, 2} : batch.log[k].status = "ok" /\ batch.log[k].drawn
    /\ \A k \in {3, 4} : batch.log[k].status = "NotFoundError"

\* C2: an item that raises is recorded as one error entry and the loop goes
\* on to the next item, so that the call returns after every item has run,
\* with the entries in nested input order; with stocks [A, B] and types
\* [candle, line], A succeeding and B not resolving, the result is A's two
\* chart entries followed by B's two error entries.
C2_ItemFailuresAreRecordedInOrder ==
    /\ NestedOrder
    /\ RecordedEntries =
          ExpectedEntries(batch.stock_list, batch.chart_types, batch.log)
    /\ batch.pc = "done" =>
          Len(batch.log) = Len(batch.stock_list) * Len(batch.chart_types)
    /\ ScenarioAB =>
          /\ Len(batch.results) = 4
          /\ \A k \in {1, 2} : /\ batch.results[k].kind = "chart"
                               /\ batch.results[k].stock_name = <<"a", "b">>
          /\ \A k \in {3, 4} : /\ batch.results[k].kind = "error"
                               /\ batch.results[k].stock_name = <<"a", "a">>
          /\ \A k \in 1..4 :
                batch.results[k].chart_type = batch.chart_types[((k - 1) % 2) + 1]

C2_Witness == ScenarioAB

----------------------------------------------------------------------------
(* C4, C10: prepare_data *)

\* the canonical name a header stands for
Canonical(c) ==
    CASE c \in {"open", "Open"} -> "Open"
      [] c \in {"high", "High"} -> "High"
      [] c \in {"low", "Low"} -> "Low"
      [] c \in {"close", "Close"} -> "Close"
      [] c \in {"vol", "volume", "Volume"} -> "Volume"
      [] OTHER -> "other"

PricesPresent(df) ==
    {"Open", "High", "Low", "Close"} \subseteq {Canonical(c) : c \in df.columns}

\* the frame has a date column prepare_data reads, and its cells are no dates
DateUnreadable(df) ==
    ("trade_date" \in df.columns \/ "Date" \in df.columns) /\ df.datefmt = "bad"

\* C4 as claimed, its second half: prepare_data succeeds when all four
\* price columns are present after renaming, with or without Volume (here:
\* on frames that have rows).
C4_SucceedsWhenPriceColumnsPresent ==
    (chart_data.called /\ frame.rows # <<>> /\ PricesPresent(frame)) =>
        chart_data.out.status = "ok"

\* C4 as amended: the same, for a frame whose date column (trade_date, else
\* Date), if it has one, holds dates; a frame whose date column holds no
\* dates fails with the date parser's error, whatever its price columns.
C4_SchemaErrorIffPriceColumnAbsentOnceDatesParse ==
    chart_data.called =>
        IF DateUnreadable(frame)
        THEN chart_data.out.status = "DateParseError"
        ELSE IF PricesPresent(frame)
        THEN chart_data.out.status = "ok"
        ELSE chart_data.out.status = "SchemaError"

C4_Witness ==
    /\ chart_data.called
    /\ chart_data.out.status = "SchemaError"
    /\ "trade_date" \in frame.columns /\ frame.datefmt = "compact"
    /\ Canonical("close") \notin {Canonical(c) : c \in frame.columns}
    /\ "vol" \in frame.columns

\* C10 as claimed: on every frame on which prepare_data succeeds,
\* prepare_data of the result succeeds and equals the result (here: on
\* frames of two rows or more).
C10_PrepareDataIdempotent ==
    (renorm.called /\ Len(frame.rows) >= 2) =>
        /\ renorm.out.status = "ok"
        /\ renorm.out.data = chart_data.out.data

\* C10 as amended: the same, for frames with no column that prepare_data
\* only comes to read as trade_date after its own lower-casing (a header
\* that differs from trade_date in letter case alone).
C10_PrepareDataIdempotentOnExactDateHeader ==
    (renorm.called /\ "Trade_Date" \notin frame.columns) =>
        /\ renorm.out.status = "ok"
        /\ renorm.out.data = chart_data.out.data

C10_Witness ==
    /\ renorm.called
    /\ "trade_date" \in frame.columns
    /\ Len(frame.rows) >= 2
    /\ frame.rows[1].trade_date > frame.rows[2].trade_date
    /\ chart_data.out.data.rows # frame.rows
    /\ renorm.out.data = chart_data.out.data

----------------------------------------------------------------------------
(* C8: generate_chart when mpf.plot raises *)

\* C8: on a normalized frame (date index, four price columns, Volume or
\* not), with volume on or off, when mpf.plot raises generate_chart returns
\* the fallback figure, which has a low-to-high and an open-to-close segment
\* per row (here: for frames that have rows and calls that are not asked to
\* save the figure).
C8_FallbackAlwaysRenders ==
    (/\ chart.called
     /\ chart.out.data.rows # <<>>
     /\ chart.out.delegate = "raised"
     /\ chart.out.data.index = "Date"
     /\ chart.args.save_path = NoPath) =>
        /\ chart.out.status = "ok"
        /\ chart.out.fig.renderer = "fallback"
        /\ Len(chart.out.fig.segments) = 2 * Len(chart.out.data.rows)
        /\ \A i \in DOMAIN chart.out.data.rows :
              LET row == chart.out.data.rows[i]
              IN  /\ chart.out.fig.segments[2 * i - 1].from = row.low
                  /\ chart.out.fig.segments[2 * i - 1].to = row.high
                  /\ chart.out.fig.segments[2 * i].from = row.open
                  /\ chart.out.fig.segments[2 * i].to = row.close

====
